---- MODULE Spec2Model ----
(***************************************************************************)
(* A model of analyze.py: the CloudTrail loader (records, load and the     *)
(* db_* helpers), the sqlite store it fills, and the three queries         *)
(* (exist_between, finite_resources, reads_writes) as main dispatches      *)
(* them.                                                                   *)
(*                                                                         *)
(* Conventions.  A Python str that the code looks into is a tuple of       *)
(* one-character strings (so that `"Delete" in name` is a real substring   *)
(* test); an ARN is the tuple of its colon-separated fields, the last one  *)
(* a tuple of characters.  A JSON object is a record, and a key the        *)
(* object lacks is a field the record lacks.  A table is the sequence of   *)
(* its rows in rowid order.  The host's time zone is UTC, the zone of the  *)
(* log's "Z" times.                                                        *)
(***************************************************************************)
EXTENDS Integers, Sequences, FiniteSets, TLC

VARIABLES
    fnjson,     \* content of FNJSON: the list under "Records"
    db,         \* committed content of FNDB
    txn,        \* rows the load's connection wrote and has not committed
    loadpc,     \* position of the process running `load`
    fed,        \* number of records the load loop has taken from records()
    out         \* what the last query process reported, until it exits

vars == <<fnjson, db, txn, loadpc, fed, out>>

-----------------------------------------------------------------------------
(* Bounds *)

\* Longest "Records" list of FNJSON under Spec.
MaxEntries == 2

\* Longest "Records" list of FNJSON under SpecReconcile.
MaxEvents == 3

-----------------------------------------------------------------------------
(* Program constants *)

UNKNOWN == -1

min_aggregation == 5

-----------------------------------------------------------------------------
(* Strings *)

\* Python's `sub in s` on str.
StrContains(s, sub) ==
    \E i \in 1..(Len(s) - Len(sub) + 1) : SubSeq(s, i, i + Len(sub) - 1) = sub

Delete == <<"D", "e", "l", "e", "t", "e">>

CreateX   == <<"C", "r", "e", "a", "t", "e", "X">>
DeleteX   == <<"D", "e", "l", "e", "t", "e", "X">>
DescribeX == <<"D", "e", "s", "c", "r", "i", "b", "e", "X">>

\* The test of lines 55 and 89 ("likely naive").
IsDeleteName(name) == StrContains(name, Delete)

-----------------------------------------------------------------------------
(* iso8601_to_ts *)

\* A date/time string "YYYY-mm-ddTHH:MM:SSZ" is the record of its six
\* numbers; `fmt` is FALSE for a string that is not of that shape.
Iso(Y, m, d, H, M, S) ==
    [Y |-> Y, m |-> m, d |-> d, H |-> H, M |-> M, S |-> S, fmt |-> TRUE]

NotIso == [Y |-> 0, m |-> 0, d |-> 0, H |-> 0, M |-> 0, S |-> 0, fmt |-> FALSE]

IsLeap(Y) == (Y % 4 = 0 /\ Y % 100 # 0) \/ Y % 400 = 0

DaysInMonth(Y, m) ==
    IF m = 2 THEN (IF IsLeap(Y) THEN 29 ELSE 28)
    ELSE IF m \in {4, 6, 9, 11} THEN 30 ELSE 31

\* Whether strptime(iso8601, "%Y-%m-%dT%H:%M:%SZ") returns (else ValueError).
StrptimeOk(s) ==
    /\ s.fmt
    /\ s.Y \in 1..9999
    /\ s.m \in 1..12
    /\ s.d \in 1..DaysInMonth(s.Y, s.m)
    /\ s.H \in 0..23
    /\ s.M \in 0..59
    /\ s.S \in 0..59

\* Days from 1970-01-01 to the civil date, proleptic Gregorian.
DaysFromCivil(Y, m, d) ==
    LET y   == IF m <= 2 THEN Y - 1 ELSE Y
        era == y \div 400
        yoe == y - era * 400
        mp  == IF m > 2 THEN m - 3 ELSE m + 9
        doy == (153 * mp + 2) \div 5 + d - 1
        doe == yoe * 365 + yoe \div 4 - yoe \div 100 + doy
    IN  era * 146097 + doe - 719468

\* int(datetime.timestamp()) of the parsed (naive) time.
iso8601_to_ts(s) ==
    DaysFromCivil(s.Y, s.m, s.d) * 86400 + s.H * 3600 + s.M * 60 + s.S

-----------------------------------------------------------------------------
(* records: the generator over FNJSON *)

Has(obj, key) == key \in DOMAIN obj

WILDCARD == <<"*">>

\* str.split(".")[0]: the characters before the first ".".
RECURSIVE FirstLabel(_)
FirstLabel(s) ==
    IF s = <<>> \/ Head(s) = "." THEN <<>>
    ELSE <<Head(s)>> \o FirstLabel(Tail(s))

\* Lines 366-371: "arn:aws:{service}:{region}:{account}:{type}".
SynthesizedArn(record, resource) ==
    << "arn", "aws", FirstLabel(record.eventSource), record.awsRegion,
       resource.accountId, record.eventName >>

\* Python truthiness of record.get("errorCode", None).
HasErrorCode(record) == Has(record, "errorCode") /\ record.errorCode # ""

\* Whether lines 364-378 run through for this resource: every key they read
\* is there and the time parses (else KeyError or ValueError).
CanYield(record, resource) ==
    /\ Has(resource, "ARN")
    /\ resource.ARN = WILDCARD =>
        /\ Has(record, "eventSource")
        /\ Has(record, "awsRegion")
        /\ Has(resource, "accountId")
        /\ Has(record, "eventName")
    /\ Has(record, "userIdentity")
    /\ Has(record.userIdentity, "arn")
    /\ Has(record, "eventName")
    /\ Has(record, "readOnly")
    /\ Has(record, "eventTime")
    /\ StrptimeOk(record.eventTime)

\* The namespace of lines 372-378.
Yielded(record, resource) ==
    [ arn  |-> IF resource.ARN = WILDCARD
               THEN SynthesizedArn(record, resource)
               ELSE resource.ARN,
      iam  |-> record.userIdentity.arn,
      name |-> record.eventName,
      ro   |-> record.readOnly,
      ts   |-> iso8601_to_ts(record.eventTime) ]

\* What the generator hands to its consumer, one after the other: a yielded
\* namespace, or the exception that ends it.
Item(ev) == [raise |-> FALSE, ev |-> ev]
Raise == [raise |-> TRUE]

\* Lines 363-378 for the resources of one record, from the i-th on.
RECURSIVE ResourceItems(_, _)
ResourceItems(record, i) ==
    IF i > Len(record.resources) THEN <<>>
    ELSE IF ~CanYield(record, record.resources[i]) THEN <<Raise>>
    ELSE <<Item(Yielded(record, record.resources[i]))>>
             \o ResourceItems(record, i + 1)

\* RecordItems with the slip of leaving out the error-code filter.
RecordItems_KeepErrors(record) ==
    IF ~Has(record, "eventType") THEN <<Raise>>
    ELSE IF record.eventType # "AwsApiCall" THEN <<>>
    ELSE IF ~Has(record, "resources") THEN <<>>
    ELSE ResourceItems(record, 1)

\* Lines 349-378 for one record.
RecordItems(record) ==
    IF ~Has(record, "eventType") THEN <<Raise>>
    ELSE IF record.eventType # "AwsApiCall" THEN <<>>
    ELSE IF ~Has(record, "resources") THEN <<>>
    ELSE IF HasErrorCode(record) THEN <<>>
    ELSE ResourceItems(record, 1)

Raises(items) == items # <<>> /\ items[Len(items)].raise

\* records(fn): lines 347-378 over the whole list; nothing follows a raise.
RECURSIVE records(_)
records(json) ==
    IF json = <<>> THEN <<>>
    ELSE LET first == RecordItems(Head(json))
         IN  IF Raises(first) THEN first ELSE first \o records(Tail(json))

-----------------------------------------------------------------------------
(* The tables and the db_* helpers *)

\* select * from resources where arn = ?  (lines 248-250)
SelectArn(resources, arn) == SelectSeq(resources, LAMBDA row : row.arn = arn)

\* db_access_record with the slip of inserting a row only when no equal row
\* is there.
db_access_record_Dedup(accesses, new) ==
    LET row == [ arn   |-> new.arn,
                 name  |-> new.name,
                 iam   |-> new.iam,
                 ts    |-> new.ts,
                 read  |-> IF new.ro THEN 1 ELSE 0,
                 write |-> IF new.ro THEN 0 ELSE 1 ]
    IN  IF \E i \in 1..Len(accesses) : accesses[i] = row
        THEN accesses
        ELSE Append(accesses, row)

\* db_access_record: the table after the insert.
db_access_record(accesses, new) ==
    Append(accesses,
           [ arn   |-> new.arn,
             name  |-> new.name,
             iam   |-> new.iam,
             ts    |-> new.ts,
             read  |-> IF new.ro THEN 1 ELSE 0,
             write |-> IF new.ro THEN 0 ELSE 1 ])

\* db_resource_create: the table after the insert.
db_resource_create(resources, new) ==
    LET isDelete == ~new.ro /\ IsDeleteName(new.name)
        isCreate == ~new.ro /\ ~IsDeleteName(new.name)
    IN  Append(resources,
               [ arn      |-> new.arn,
                 iam      |-> new.iam,
                 created  |-> IF isCreate THEN new.ts ELSE UNKNOWN,
                 deleted  |-> IF isDelete THEN new.ts ELSE UNKNOWN,
                 earliest |-> new.ts,
                 latest   |-> new.ts ])

Min(a, b) == IF a <= b THEN a ELSE b
Max(a, b) == IF a >= b THEN a ELSE b

\* UpdatedRow with the slip of unpacking `old` as (arn, iam, deleted,
\* created, earliest, latest).
UpdatedRow_Misread(old, new) ==
    LET isDelete == ~new.ro /\ IsDeleteName(new.name)
        isCreate == ~new.ro /\ ~IsDeleteName(new.name)
        deleted  == IF isDelete /\ (old.created = UNKNOWN \/ new.ts > old.created)
                    THEN new.ts ELSE old.created
        created  == IF isCreate /\ (old.deleted = UNKNOWN \/ new.ts < old.deleted)
                    THEN new.ts ELSE old.deleted
    IN  [ arn      |-> old.arn,
          iam      |-> old.iam,
          created  |-> created,
          deleted  |-> deleted,
          earliest |-> Min(old.earliest, new.ts),
          latest   |-> Max(old.latest, new.ts) ]

\* UpdatedRow with the slip of taking max for earliest and min for latest.
UpdatedRow_MinMax(old, new) ==
    LET isDelete == ~new.ro /\ IsDeleteName(new.name)
        isCreate == ~new.ro /\ ~IsDeleteName(new.name)
        deleted  == IF isDelete /\ (old.deleted = UNKNOWN \/ new.ts > old.deleted)
                    THEN new.ts ELSE old.deleted
        created  == IF isCreate /\ (old.created = UNKNOWN \/ new.ts < old.created)
                    THEN new.ts ELSE old.created
    IN  [ arn      |-> old.arn,
          iam      |-> old.iam,
          created  |-> created,
          deleted  |-> deleted,
          earliest |-> Max(old.earliest, new.ts),
          latest   |-> Min(old.latest, new.ts) ]

\* UpdatedRow with the slip of taking every write for a creation.
UpdatedRow_AnyWrite(old, new) ==
    LET isDelete == ~new.ro /\ IsDeleteName(new.name)
        isCreate == ~new.ro
        deleted  == IF isDelete /\ (old.deleted = UNKNOWN \/ new.ts > old.deleted)
                    THEN new.ts ELSE old.deleted
        created  == IF isCreate /\ (old.created = UNKNOWN \/ new.ts < old.created)
                    THEN new.ts ELSE old.created
    IN  [ arn      |-> old.arn,
          iam      |-> old.iam,
          created  |-> created,
          deleted  |-> deleted,
          earliest |-> Min(old.earliest, new.ts),
          latest   |-> Max(old.latest, new.ts) ]

\* UpdatedRow with the slip of leaving earliest and latest as they were.
UpdatedRow_NoExtend(old, new) ==
    LET isDelete == ~new.ro /\ IsDeleteName(new.name)
        isCreate == ~new.ro /\ ~IsDeleteName(new.name)
        deleted  == IF isDelete /\ (old.deleted = UNKNOWN \/ new.ts > old.deleted)
                    THEN new.ts ELSE old.deleted
        created  == IF isCreate /\ (old.created = UNKNOWN \/ new.ts < old.created)
                    THEN new.ts ELSE old.created
    IN  [ arn      |-> old.arn,
          iam      |-> old.iam,
          created  |-> created,
          deleted  |-> deleted,
          earliest |-> old.earliest,
          latest   |-> old.latest ]

\* Lines 87-102: the values db_resource_update writes for the row `old`.
UpdatedRow(old, new) ==
    LET isDelete == ~new.ro /\ IsDeleteName(new.name)
        isCreate == ~new.ro /\ ~IsDeleteName(new.name)
        deleted  == IF isDelete /\ (old.deleted = UNKNOWN \/ new.ts > old.deleted)
                    THEN new.ts ELSE old.deleted
        created  == IF isCreate /\ (old.created = UNKNOWN \/ new.ts < old.created)
                    THEN new.ts ELSE old.created
    IN  [ arn      |-> old.arn,
          iam      |-> old.iam,
          created  |-> created,
          deleted  |-> deleted,
          earliest |-> Min(old.earliest, new.ts),
          latest   |-> Max(old.latest, new.ts) ]

\* db_resource_update with the slip of an update without its `where`.
db_resource_update_NoWhere(resources, old, new) ==
    LET vals == UpdatedRow(old, new)
    IN  [ i \in 1..Len(resources) |->
            [ resources[i] EXCEPT !.created  = vals.created,
                                  !.deleted  = vals.deleted,
                                  !.earliest = vals.earliest,
                                  !.latest   = vals.latest ] ]

\* db_resource_update: the table after `update resources set ... where arn = ?`.
db_resource_update(resources, old, new) ==
    LET vals == UpdatedRow(old, new)
    IN  [ i \in 1..Len(resources) |->
            IF resources[i].arn = vals.arn
            THEN [ resources[i] EXCEPT !.created  = vals.created,
                                       !.deleted  = vals.deleted,
                                       !.earliest = vals.earliest,
                                       !.latest   = vals.latest ]
            ELSE resources[i] ]

\* Upsert with the slip of looking the row up by the principal.
Upsert_NoLookup(resources, record) ==
    LET existing == SelectArn(resources, record.iam)
    IN  IF existing # <<>>
        THEN db_resource_update(resources, existing[1], record)
        ELSE db_resource_create(resources, record)

\* Lines 248-253: the body of the load loop on the resources table.
Upsert(resources, record) ==
    LET existing == SelectArn(resources, record.arn)
    IN  IF existing # <<>>
        THEN db_resource_update(resources, existing[1], record)
        ELSE db_resource_create(resources, record)

-----------------------------------------------------------------------------
(* The store and the load process *)

NoFile == [exists |-> FALSE, tables |-> {}, resources |-> <<>>, accesses |-> <<>>]

\* connect(fndb) makes the file when it is not there.
Connected(file) == [file EXCEPT !.exists = TRUE]

NoTxn == [resources |-> <<>>, accesses |-> <<>>]

\* What records(fnjson) hands to the loop of line 247.
Items == records(fnjson)

\* Lines 240-245: unlink FNDB when it is there, then connect.
LoadBegin ==
    /\ loadpc \in {"idle", "done", "failed"}
    /\ db' = Connected(NoFile)
    /\ txn' = NoTxn
    /\ fed' = 0
    /\ loadpc' = "connected"
    /\ UNCHANGED <<fnjson, out>>

\* db_table_create: `create table`, then con.commit().
db_table_create(file, name) == [file EXCEPT !.tables = @ \cup {name}]

\* Lines 138-150 of db_tables_create.
CreateResourcesTable ==
    /\ loadpc = "connected"
    /\ db' = db_table_create(Connected(db), "resources")
    /\ loadpc' = "resources_created"
    /\ UNCHANGED <<fnjson, txn, fed, out>>

\* Lines 152-164 of db_tables_create.
CreateAccessesTable ==
    /\ loadpc = "resources_created"
    /\ db' = db_table_create(Connected(db), "accesses")
    /\ loadpc' = "loop"
    /\ UNCHANGED <<fnjson, txn, fed, out>>

\* LoadBody with the slip of keeping resources for writes only.
LoadBody_WritesOnly(t, record) ==
    [ resources |-> IF record.ro THEN t.resources
                    ELSE Upsert(t.resources, record),
      accesses  |-> db_access_record(t.accesses, record) ]

\* Lines 248-254: one pass of the loop body, in the connection's open
\* transaction.
LoadBody(t, record) ==
    [ resources |-> Upsert(t.resources, record),
      accesses  |-> db_access_record(t.accesses, record) ]

\* LoadRecord with the slip of committing in the loop.
LoadRecord_Committing ==
    /\ loadpc = "loop"
    /\ fed < Len(Items)
    /\ ~Items[fed + 1].raise
    /\ txn' = LoadBody(txn, Items[fed + 1].ev)
    /\ db' = [db EXCEPT !.resources = txn'.resources, !.accesses = txn'.accesses]
    /\ fed' = fed + 1
    /\ UNCHANGED <<fnjson, loadpc, out>>

\* Lines 247-254: the generator yields and the loop body runs.
LoadRecord ==
    /\ loadpc = "loop"
    /\ fed < Len(Items)
    /\ ~Items[fed + 1].raise
    /\ txn' = LoadBody(txn, Items[fed + 1].ev)
    /\ fed' = fed + 1
    /\ UNCHANGED <<fnjson, db, loadpc, out>>

\* Line 247: the generator raises (KeyError, ValueError); nothing catches it,
\* the process ends and the open transaction is rolled back.
LoadRaise ==
    /\ loadpc = "loop"
    /\ fed < Len(Items)
    /\ Items[fed + 1].raise
    /\ txn' = NoTxn
    /\ loadpc' = "failed"
    /\ UNCHANGED <<fnjson, db, fed, out>>

\* What con.commit() of line 255 leaves in the file.
Committed(file, t) ==
    [file EXCEPT !.resources = t.resources, !.accesses = t.accesses]

\* Lines 255-257: the generator is exhausted; commit and close.
LoadCommit ==
    /\ loadpc = "loop"
    /\ fed = Len(Items)
    /\ db' = Committed(db, txn)
    /\ txn' = NoTxn
    /\ loadpc' = "done"
    /\ UNCHANGED <<fnjson, fed, out>>

\* A statement of lines 246-255 fails on the storage (sqlite3.Error): the
\* process ends and the open transaction is rolled back.
StorageFailure ==
    /\ loadpc \in {"connected", "resources_created", "loop"}
    /\ txn' = NoTxn
    /\ loadpc' = "failed"
    /\ UNCHANGED <<fnjson, db, fed, out>>

-----------------------------------------------------------------------------
(* The queries *)

\* The orders `order by earliest` may return the selected rows in.
OrderedByEarliest(sel) ==
    IF sel = <<>> THEN {<<>>}
    ELSE LET n      == Len(sel)
             orders == {p \in [1..n -> 1..n] : \A i, j \in 1..n : i # j => p[i] # p[j]}
             sorted == {p \in orders :
                          \A i, j \in 1..n :
                              i < j => sel[p[i]].earliest <= sel[p[j]].earliest}
         IN  {[i \in 1..n |-> sel[p[i]]] : p \in sorted}

\* exist_between with the slip of strict comparisons.
exist_between_Strict(file, lbound, ubound) ==
    OrderedByEarliest(
        SelectSeq(file.resources,
                  LAMBDA row : lbound < row.latest /\ ubound > row.earliest))

\* Lines 177-184: the rows exist_between may fetch, in order.
exist_between(file, lbound, ubound) ==
    OrderedByEarliest(
        SelectSeq(file.resources,
                  LAMBDA row : lbound <= row.latest /\ ubound >= row.earliest))

\* finite_resources with the slip of `or` for `and`.
finite_resources_Either(file) ==
    SelectSeq(file.resources,
              LAMBDA row : row.created # UNKNOWN \/ row.deleted # UNKNOWN)

\* Lines 206-212: the rows finite_resources fetches.
finite_resources(file) ==
    SelectSeq(file.resources,
              LAMBDA row : row.created # UNKNOWN /\ row.deleted # UNKNOWN)

RECURSIVE SumRead(_)
SumRead(rows) == IF rows = <<>> THEN 0 ELSE Head(rows).read + SumRead(Tail(rows))

RECURSIVE SumWrite(_)
SumWrite(rows) == IF rows = <<>> THEN 0 ELSE Head(rows).write + SumWrite(Tail(rows))

\* reads_writes with the slip of an inclusive upper bound.
reads_writes_Inclusive(file, lbound, ubound, iam) ==
    LET matching ==
            SelectSeq(file.accesses,
                      LAMBDA a : /\ iam # "" => a.iam = iam
                                 /\ a.ts >= lbound
                                 /\ a.ts <= ubound)
        group(arn) == SelectSeq(matching, LAMBDA a : a.arn = arn)
    IN  { IF iam # ""
          THEN [arn |-> arn, iam |-> iam,
                reads |-> SumRead(group(arn)), writes |-> SumWrite(group(arn))]
          ELSE [arn |-> arn,
                reads |-> SumRead(group(arn)), writes |-> SumWrite(group(arn))]
          : arn \in {matching[i].arn : i \in 1..Len(matching)} }

\* Lines 301-337: the rows reads_writes fetches, one for each arn among the
\* matching accesses.  `iam` is "" when argv has no fifth word: Python's
\* `if iam:` takes None and "" alike.
reads_writes(file, lbound, ubound, iam) ==
    LET matching ==
            SelectSeq(file.accesses,
                      LAMBDA a : /\ iam # "" => a.iam = iam
                                 /\ a.ts >= lbound
                                 /\ a.ts < ubound)
        group(arn) == SelectSeq(matching, LAMBDA a : a.arn = arn)
    IN  { IF iam # ""
          THEN [arn |-> arn, iam |-> iam,
                reads |-> SumRead(group(arn)), writes |-> SumWrite(group(arn))]
          ELSE [arn |-> arn,
                reads |-> SumRead(group(arn)), writes |-> SumWrite(group(arn))]
          : arn \in {matching[i].arn : i \in 1..Len(matching)} }

\* What a query process leaves behind: its command line, its exit status and
\* the rows it logged (in order for the two resource queries, as a set for
\* reads-writes, whose statement has no `order by`).
Report(argv, exit, rows, counts) ==
    [argv |-> argv, exit |-> exit, rows |-> rows, counts |-> counts]

NoOut == Report(<<>>, 0, <<>>, {})

Failed(argv) == Report(argv, 1, <<>>, {})

\* TooNarrow with the slip of `<=` for `<`.
TooNarrow_Inclusive(lbound, ubound) == ubound - lbound <= min_aggregation * 60

\* Lines 277-280: the window reads-writes refuses.
TooNarrow(lbound, ubound) == ubound - lbound < min_aggregation * 60

\* Lines 270-272: main with "exist-between".
ExistBetween(argv) ==
    /\ out = NoOut
    /\ IF ~(StrptimeOk(argv[2]) /\ StrptimeOk(argv[3]))
       THEN /\ out' = Failed(argv)
            /\ db' = db
       ELSE /\ db' = Connected(db)
            /\ IF "resources" \notin db.tables
               THEN out' = Failed(argv)
               ELSE \E rows \in exist_between(db, iso8601_to_ts(argv[2]),
                                              iso8601_to_ts(argv[3])) :
                        out' = Report(argv, 0, rows, {})
    /\ UNCHANGED <<fnjson, txn, loadpc, fed>>

\* Lines 273-274: main with "finite-resources".
FiniteResources(argv) ==
    /\ out = NoOut
    /\ db' = Connected(db)
    /\ out' = IF "resources" \notin db.tables
              THEN Failed(argv)
              ELSE Report(argv, 0, finite_resources(db), {})
    /\ UNCHANGED <<fnjson, txn, loadpc, fed>>

\* Lines 275-282: main with "reads-writes".
ReadsWrites(argv) ==
    /\ out = NoOut
    /\ IF ~(StrptimeOk(argv[2]) /\ StrptimeOk(argv[3]))
       THEN /\ out' = Failed(argv)
            /\ db' = db
       ELSE LET lbound == iso8601_to_ts(argv[2])
                ubound == iso8601_to_ts(argv[3])
                iam    == IF Len(argv) < 4 THEN "" ELSE argv[4]
            IN  IF TooNarrow(lbound, ubound)
                THEN /\ out' = Failed(argv)
                     /\ db' = db
                ELSE /\ db' = Connected(db)
                     /\ out' = IF "accesses" \notin db.tables
                               THEN Failed(argv)
                               ELSE Report(argv, 0, <<>>,
                                           reads_writes(db, lbound, ubound, iam))
    /\ UNCHANGED <<fnjson, txn, loadpc, fed>>

\* Lines 266-267 and 283-284: usage() prints the options and exits with 1.
Usage(argv) ==
    /\ out = NoOut
    /\ out' = Failed(argv)
    /\ UNCHANGED <<fnjson, db, txn, loadpc, fed>>

\* The query process is gone.
QueryExit ==
    /\ out # NoOut
    /\ out' = NoOut
    /\ UNCHANGED <<fnjson, db, txn, loadpc, fed>>

-----------------------------------------------------------------------------
(* Inputs *)

Alice == "arn:aws:iam::123:user/alice"
Bob   == "arn:aws:iam::123:user/bob"

S3 == <<"s", "3", ".", "a", "w", "s">>

Arn(id) == <<"arn", "aws", <<"s", "3">>, "us-east-1", "123", id>>
ArnA == Arn(<<"a">>)
ArnB == Arn(<<"b">>)

ResA == [ARN |-> ArnA, accountId |-> "123"]
ResB == [ARN |-> ArnB, accountId |-> "123"]
ResAny == [ARN |-> WILDCARD, accountId |-> "123"]

\* "2022-03-01T00:00:00Z", two and a half and five minutes later, and the
\* second before the epoch.
T0   == Iso(2022, 3, 1, 0, 0, 0)
T150 == Iso(2022, 3, 1, 0, 2, 30)
T300 == Iso(2022, 3, 1, 0, 5, 0)
TEve == Iso(1969, 12, 31, 23, 59, 59)

ApiCall(name, ro, time, iam, resources) ==
    [ eventType    |-> "AwsApiCall",
      eventName    |-> name,
      eventTime    |-> time,
      readOnly     |-> ro,
      eventSource  |-> S3,
      awsRegion    |-> "us-east-1",
      userIdentity |-> [arn |-> iam],
      resources    |-> resources ]

\* obj without the key.
Without(obj, key) == [k \in DOMAIN obj \ {key} |-> obj[k]]

\* Entries the generator filters out.
FilteredEntries ==
    { [ApiCall(CreateX, FALSE, T0, Alice, <<ResA>>) EXCEPT !.eventType = "AwsConsoleSignIn"],
      Without(ApiCall(CreateX, FALSE, T150, Alice, <<ResA>>), "resources"),
      ApiCall(DeleteX, FALSE, T300, Bob, <<ResA>>) @@ [errorCode |-> "AccessDenied"] }

\* Entries that lack a key the generator reads, or whose time does not parse.
MalformedEntries ==
    { Without(ApiCall(CreateX, FALSE, T0, Alice, <<ResA>>), "eventType"),
      ApiCall(DeleteX, FALSE, NotIso, Alice, <<ResB>>) }

\* Entries the generator turns into events (the last one into none).
GoodEntries ==
    { ApiCall(CreateX, FALSE, T0, Alice, <<ResA, ResB>>),
      ApiCall(DeleteX, FALSE, T300, Bob, <<ResA>>) @@ [errorCode |-> ""],
      ApiCall(DeleteX, FALSE, TEve, Alice, <<ResA>>),
      ApiCall(DescribeX, TRUE, T150, Bob, <<ResA>>),
      ApiCall(CreateX, FALSE, T300, Alice, <<ResAny>>),
      ApiCall(DescribeX, TRUE, T300, Alice, <<>>) }

RawEntries == GoodEntries \cup FilteredEntries \cup MalformedEntries

\* The lists of at most n entries.
RECURSIVE ListsUpTo(_, _)
ListsUpTo(entries, n) ==
    IF n = 0 THEN {<<>>}
    ELSE LET shorter == ListsUpTo(entries, n - 1)
         IN  shorter \cup {Append(l, e) : l \in shorter, e \in entries}

JsonFiles == ListsUpTo(RawEntries, MaxEntries)

\* Single-resource calls on one resource at three times, in each of the three
\* ways the reconciler tells apart, and one call on another resource.
ReconcileEntries ==
    { ApiCall(name, name = DescribeX, time, Alice, <<ResA>>) :
        name \in {CreateX, DeleteX, DescribeX}, time \in {TEve, T0, T150} }
    \cup { ApiCall(DescribeX, TRUE, T300, Bob, <<ResA>>),
           ApiCall(CreateX, FALSE, T0, Bob, <<ResB>>) }

ReconcileFiles == ListsUpTo(ReconcileEntries, MaxEvents)

QueryTimes == {T0, T150, T300}

ExistBetweenArgvs ==
    {<<"exist-between", lb, ub>> : lb, ub \in QueryTimes}
    \cup {<<"exist-between", T0, NotIso>>}

ReadsWritesArgvs ==
    { <<"reads-writes", T0, T300>>,
      <<"reads-writes", T0, T300, Bob>>,
      <<"reads-writes", TEve, T300, Alice>>,
      <<"reads-writes", T0, T150>>,
      <<"reads-writes", T300, T0>>,
      <<"reads-writes", NotIso, T300>> }

-----------------------------------------------------------------------------
(* Specifications *)

InitStore ==
    /\ db = NoFile
    /\ txn = NoTxn
    /\ loadpc = "idle"
    /\ fed = 0
    /\ out = NoOut

Init == fnjson \in JsonFiles /\ InitStore

Load ==
    \/ LoadBegin
    \/ CreateResourcesTable
    \/ CreateAccessesTable
    \/ LoadRecord
    \/ LoadCommit

Query ==
    \/ \E argv \in ExistBetweenArgvs : ExistBetween(argv)
    \/ FiniteResources(<<"finite-resources">>)
    \/ \E argv \in ReadsWritesArgvs : ReadsWrites(argv)
    \/ Usage(<<"help">>)
    \/ QueryExit

Next == Load \/ LoadRaise \/ StorageFailure \/ Query

Spec == Init /\ [][Next]_vars

\* The load alone, on well-formed logs.
InitReconcile == fnjson \in ReconcileFiles /\ InitStore

SpecReconcile == InitReconcile /\ [][Load]_vars

-----------------------------------------------------------------------------
(* What the claims speak of *)

\* The events records(fnjson) yields, in order.
Events == [i \in 1..(IF Raises(Items) THEN Len(Items) - 1 ELSE Len(Items)) |-> Items[i].ev]

\* The events the reconcile logs can hold.
ReconcileEvents == {Yielded(entry, entry.resources[1]) : entry \in ReconcileEntries}

\* The rows as the load's connection reads them while it runs, and as every
\* connection reads them otherwise.
Resources == IF loadpc = "loop" THEN txn.resources ELSE db.resources
Accesses  == IF loadpc = "loop" THEN txn.accesses ELSE db.accesses

RowsOf(table) == {table[i] : i \in 1..Len(table)}

Lifecycle(row) ==
    [ created |-> row.created, deleted |-> row.deleted,
      earliest |-> row.earliest, latest |-> row.latest ]

\* The resources table of a fresh store after the loop body ran on each of
\* the events in turn.
RECURSIVE LoadedFrom(_, _)
LoadedFrom(resources, events) ==
    IF events = <<>> THEN resources
    ELSE LoadedFrom(Upsert(resources, Head(events)), Tail(events))

Distinct(events) ==
    \A i, j \in 1..Len(events) : i # j => events[i] # events[j]

Reorderings(events) ==
    {[i \in 1..Len(events) |-> events[p[i]]] : p \in Permutations(1..Len(events))}

-----------------------------------------------------------------------------
(* C1 *)

\* C1: order-independence.  When a load of pairwise distinct events has
\* completed, loading any permutation of the same events into a fresh store
\* gives the same Resource rows (identifier, principal, created, deleted,
\* earliest, latest).
C1_OrderIndependent ==
    (loadpc = "done" /\ Distinct(Events)) =>
        \A events \in Reorderings(Events) :
            RowsOf(LoadedFrom(<<>>, events)) = RowsOf(db.resources)

-----------------------------------------------------------------------------
(* C2 *)

\* C2: the reconciler is idempotent.  In every reachable state of the store
\* and for every event e, the upsert for e applied twice leaves the Resource
\* of e's identifier with the created, deleted, earliest and latest that one
\* application leaves.
C2_Idempotent ==
    \A e \in ReconcileEvents :
        LET once  == Upsert(Resources, e)
            twice == Upsert(once, e)
        IN  /\ Len(SelectArn(twice, e.arn)) = 1
            /\ Lifecycle(SelectArn(twice, e.arn)[1]) = Lifecycle(SelectArn(once, e.arn)[1])

\* The run itself has applied one event twice in a row, the second time to a
\* row that an earlier event left with both lifecycle times set.
C2_Witness ==
    /\ loadpc = "loop"
    /\ fed >= 3
    /\ Events[fed] = Events[fed - 1]
    /\ \E row \in RowsOf(txn.resources) :
        /\ row.arn = Events[fed].arn
        /\ row.created # UNKNOWN
        /\ row.deleted # UNKNOWN

-----------------------------------------------------------------------------
(* C3 *)

\* C3: in every reachable state, committed or not, every Resource row has
\* earliest <= latest.
C3_EarliestLeLatest ==
    \A row \in RowsOf(txn.resources) \cup RowsOf(db.resources) :
        row.earliest <= row.latest

\* An update has widened a row's interval.
C3_Witness ==
    \E row \in RowsOf(txn.resources) : row.earliest < row.latest

-----------------------------------------------------------------------------
(* C4 *)

\* The AccessRecord the Recorder writes for an event.
AccessRecordOf(e) ==
    [ arn |-> e.arn, name |-> e.name, iam |-> e.iam, ts |-> e.ts,
      read |-> IF e.ro THEN 1 ELSE 0, write |-> IF e.ro THEN 0 ELSE 1 ]

\* C4: the Recorder is a ledger that does not deduplicate.  Every pass of the
\* load loop adds exactly one AccessRecord, (read, write) = (1, 0) for a
\* read-only event and (0, 1) otherwise, and leaves the records before it as
\* they were; the ledger is as long as the number of events applied.
C4_Ledger ==
    /\ [](loadpc \in {"loop", "done"} => Len(Accesses) = fed)
    /\ [][fed' = fed + 1 =>
            /\ Len(txn'.accesses) = Len(txn.accesses) + 1
            /\ SubSeq(txn'.accesses, 1, Len(txn.accesses)) = txn.accesses
            /\ txn'.accesses[fed'] = AccessRecordOf(Events[fed'])
            /\ <<txn'.accesses[fed'].read, txn'.accesses[fed'].write>> \in {<<1, 0>>, <<0, 1>>}
            /\ txn'.accesses[fed'].read = 1 <=> Events[fed'].ro]_vars

\* The same event was applied twice and the ledger holds two equal rows.
C4_Witness ==
    /\ loadpc = "done"
    /\ \E i, j \in 1..Len(db.accesses) : i # j /\ db.accesses[i] = db.accesses[j]

-----------------------------------------------------------------------------
(* C5 *)

\* C5: the load is all or nothing.  The committed store holds a Resource or
\* an AccessRecord row only once the run has reached its final commit, and
\* then it holds the rows of every event of the run; a run that failed
\* leaves none.
C5_AllOrNothing ==
    /\ loadpc # "done" => db.resources = <<>> /\ db.accesses = <<>>
    /\ loadpc = "done" => fed = Len(Events) /\ Len(db.accesses) = Len(Events)

\* The run failed after it had written rows.
C5_Witness == loadpc = "failed" /\ fed > 0

-----------------------------------------------------------------------------
(* C6 - C9: the queries *)

\* A query process with this subcommand runs in this step.
QueryRuns(cmd) == out = NoOut /\ out' # NoOut /\ out'.argv[1] = cmd

\* The bounds on its command line parse.
BoundsParse(argv) == StrptimeOk(argv[2]) /\ StrptimeOk(argv[3])

\* C6: existenceBetween(lb, ub) reports a Resource R of the committed store
\* if and only if R.earliest <= ub and R.latest >= lb, whatever the store
\* and the bounds (lb > ub too); it reports it once.
C6_ExistenceBetween ==
    [][(QueryRuns("exist-between") /\ BoundsParse(out'.argv) /\ "resources" \in db.tables) =>
        LET lb == iso8601_to_ts(out'.argv[2])
            ub == iso8601_to_ts(out'.argv[3])
            overlapping == {R \in RowsOf(db.resources) : R.earliest <= ub /\ R.latest >= lb}
        IN  /\ out'.exit = 0
            /\ RowsOf(out'.rows) = overlapping
            /\ Len(out'.rows) = Cardinality(overlapping)]_vars

\* The query reported a resource whose latest time is the lower bound
\* itself and left out another resource of the store.
C6_Witness ==
    /\ out.argv # <<>>
    /\ out.argv[1] = "exist-between"
    /\ out.exit = 0
    /\ out.rows # <<>>
    /\ Len(out.rows) < Len(db.resources)
    /\ out.rows[1].latest = iso8601_to_ts(out.argv[2])

\* C7: finiteResources() reports exactly the Resources of the committed store
\* whose created and deleted both differ from the unknown sentinel.
C7_FiniteResources ==
    [][(QueryRuns("finite-resources") /\ "resources" \in db.tables) =>
        LET finite == {R \in RowsOf(db.resources) : R.created # -1 /\ R.deleted # -1}
        IN  /\ out'.exit = 0
            /\ RowsOf(out'.rows) = finite
            /\ Len(out'.rows) = Cardinality(finite)]_vars

\* The query reported a resource and left out another one of the store.
C7_Witness ==
    /\ out.argv = <<"finite-resources">>
    /\ out.rows # <<>>
    /\ Len(out.rows) < Len(db.resources)

\* The AccessRecords of the committed ledger (by position) that a
\* reads-writes query matches.
Matching(lb, ub, argv) ==
    {i \in 1..Len(db.accesses) :
        /\ lb <= db.accesses[i].ts
        /\ db.accesses[i].ts < ub
        /\ Len(argv) = 4 => db.accesses[i].iam = argv[4]}

\* C8: readsWrites(lb, ub, principal?) reports one line for each identifier
\* with at least one AccessRecord with lb <= time < ub (of the principal,
\* when one is given) and none for any other; on it, reads is the number of
\* matching read-only records and writes the number of the other matching
\* records of the identifier, so that reads + writes is the number of its
\* matching records.
C8_ReadsWrites ==
    [][(QueryRuns("reads-writes") /\ out'.exit = 0) =>
        LET lb == iso8601_to_ts(out'.argv[2])
            ub == iso8601_to_ts(out'.argv[3])
            M  == Matching(lb, ub, out'.argv)
            of(arn) == {i \in M : db.accesses[i].arn = arn}
        IN  /\ {line.arn : line \in out'.counts} = {db.accesses[i].arn : i \in M}
            /\ \A line \in out'.counts :
                /\ line.reads = Cardinality({i \in of(line.arn) : db.accesses[i].read = 1})
                /\ line.writes = Cardinality({i \in of(line.arn) : db.accesses[i].read = 0})
                /\ line.reads + line.writes = Cardinality(of(line.arn))
            /\ \A l1, l2 \in out'.counts : l1.arn = l2.arn => l1 = l2]_vars

\* The query counted an identifier's records, one at time lb among them,
\* where the ledger also holds a record at time ub.
C8_Witness ==
    /\ out.argv # <<>>
    /\ out.argv[1] = "reads-writes"
    /\ out.exit = 0
    /\ out.counts # {}
    /\ \E i \in 1..Len(db.accesses) : db.accesses[i].ts = iso8601_to_ts(out.argv[2])
    /\ \E i \in 1..Len(db.accesses) : db.accesses[i].ts = iso8601_to_ts(out.argv[3])

\* C9: a reads-writes request with ub - lb below 300 seconds is refused: the
\* process exits with a status other than 0, reports nothing and does not
\* open the store.  With ub - lb at 300 seconds or more it is accepted, and
\* aggregated over the ledger when there is one.
C9_MinimumWindow ==
    [][(QueryRuns("reads-writes") /\ BoundsParse(out'.argv)) =>
        LET lb == iso8601_to_ts(out'.argv[2])
            ub == iso8601_to_ts(out'.argv[3])
        IN  /\ ub - lb < 300 => out'.exit # 0 /\ out'.counts = {} /\ db' = db
            /\ ub - lb >= 300 =>
                /\ db'.exists
                /\ "accesses" \in db.tables => out'.exit = 0]_vars

\* A window of 150 seconds was refused where there is no store file yet.
C9_Witness ==
    /\ out.argv = <<"reads-writes", T0, T150>>
    /\ out.exit = 1
    /\ ~db.exists

-----------------------------------------------------------------------------
(* C10: the Extractor *)

\* An entry with every field the input format lists; the error code and the
\* resources are optional.
WellFormed(entry) ==
    /\ \A key \in {"eventType", "eventName", "eventTime", "readOnly",
                   "eventSource", "awsRegion", "userIdentity"} : Has(entry, key)
    /\ Has(entry.userIdentity, "arn")
    /\ StrptimeOk(entry.eventTime)
    /\ Has(entry, "resources") =>
        \A i \in 1..Len(entry.resources) :
            Has(entry.resources[i], "ARN") /\ Has(entry.resources[i], "accountId")

\* The three filters of the Extractor.
Passes(entry) ==
    /\ entry.eventType = "AwsApiCall"
    /\ Has(entry, "resources")
    /\ ~(Has(entry, "errorCode") /\ entry.errorCode # "")

\* One event for each resource of each entry that passes, in input order.
RECURSIVE Expected(_)
Expected(json) ==
    IF json = <<>> THEN <<>>
    ELSE (IF Passes(Head(json))
          THEN [i \in 1..Len(Head(json).resources) |->
                    Yielded(Head(json), Head(json).resources[i])]
          ELSE <<>>) \o Expected(Tail(json))

-----------------------------------------------------------------------------
(* C11: malformed entries *)

\* The load on a storage that does not fail, with no query beside it.
SpecIngest == Init /\ [][Load \/ LoadRaise]_vars

\* The entries of the log that are well formed, in order.
WellFormedOf(json) == SelectSeq(json, WellFormed)

\* C11: a malformed raw entry is skipped and ingestion goes on.  The run
\* does not end in failure on it, and at its final commit the ledger holds
\* the events of all the well-formed entries, those before and those after
\* the malformed one.
C11_MalformedSkipped ==
    /\ loadpc # "failed"
    /\ loadpc = "done" =>
        db.accesses = [i \in 1..Len(Expected(WellFormedOf(fnjson))) |->
                          AccessRecordOf(Expected(WellFormedOf(fnjson))[i])]

-----------------------------------------------------------------------------
(* C12: the store only grows *)

ArnsOf(table) == {table[i].arn : i \in 1..Len(table)}

\* No two rows of the table have the same identifier.
OneRowEach(table) ==
    \A i, j \in 1..Len(table) : table[i].arn = table[j].arn => i = j

-----------------------------------------------------------------------------
(* C13: the closed form of the reconciled state *)

\* The events applied so far by the run, in order.
Applied == SubSeq(Events, 1, fed)

\* The times of the applied events of an identifier: all of them, those of
\* its writes that are not deletions, and those of its deletions.
TimesOf(arn) ==
    {Applied[i].ts : i \in {j \in 1..Len(Applied) : Applied[j].arn = arn}}
CreateTimesOf(arn) ==
    {Applied[i].ts : i \in {j \in 1..Len(Applied) :
        Applied[j].arn = arn /\ ~Applied[j].ro /\ ~IsDeleteName(Applied[j].name)}}
DeleteTimesOf(arn) ==
    {Applied[i].ts : i \in {j \in 1..Len(Applied) :
        Applied[j].arn = arn /\ ~Applied[j].ro /\ IsDeleteName(Applied[j].name)}}

MinOf(S) == CHOOSE x \in S : \A y \in S : x <= y
MaxOf(S) == CHOOSE x \in S : \A y \in S : x >= y

\* C13: after any sequence of events applied to a fresh store, the row of an
\* identifier has earliest = the least and latest = the greatest of the times
\* of its events, created = the least time of its non-read-only events
\* whose name is not a deletion's, or unknown without one, and deleted = the
\* greatest time of its non-read-only deletions, or unknown without one.
C13_ClosedForm ==
    \A row \in RowsOf(Resources) :
        /\ row.earliest = MinOf(TimesOf(row.arn))
        /\ row.latest = MaxOf(TimesOf(row.arn))
        /\ row.created = IF CreateTimesOf(row.arn) = {} THEN -1
                         ELSE MinOf(CreateTimesOf(row.arn))
        /\ row.deleted = IF DeleteTimesOf(row.arn) = {} THEN -1
                         ELSE MaxOf(DeleteTimesOf(row.arn))

-----------------------------------------------------------------------------
(* C14: monotone lifecycle fields *)

\* The row of the identifier in the table.
RowOf(table, arn) == SelectArn(table, arn)[1]

\* C14: along the upserts of a run, a row's earliest never increases and its
\* latest never decreases; created, once known, stays known and never
\* increases; deleted, once known, stays known and never decreases; and a
\* read-only event changes neither created nor deleted.
C14_Monotone ==
    [][(loadpc = "loop" /\ fed' = fed + 1) =>
        \A old \in RowsOf(txn.resources) :
            LET new == RowOf(txn'.resources, old.arn)
            IN  /\ new.earliest <= old.earliest
                /\ new.latest >= old.latest
                /\ old.created # -1 => new.created # -1 /\ new.created <= old.created
                /\ old.deleted # -1 => new.deleted # -1 /\ new.deleted >= old.deleted
                /\ Events[fed'].ro =>
                    new.created = old.created /\ new.deleted = old.deleted]_vars

-----------------------------------------------------------------------------
(* C15: queries beside a later load run *)

\* The uncommitted rows after the loop body ran on each of the events.
RECURSIVE LoadedTxn(_, _)
LoadedTxn(t, events) ==
    IF events = <<>> THEN t
    ELSE LoadedTxn(LoadBody(t, Head(events)), Tail(events))

\* The store a completed load of FNJSON commits.
LoadedStore ==
    Committed(db_table_create(db_table_create(Connected(NoFile), "resources"),
                              "accesses"),
              LoadedTxn(NoTxn, Events))

\* Logs of well-formed entries.
WellFormedFiles == ListsUpTo(GoodEntries \cup FilteredEntries, MaxEntries)

\* A load of FNJSON has completed.
InitLoaded ==
    /\ fnjson \in WellFormedFiles
    /\ db = LoadedStore
    /\ txn = NoTxn
    /\ loadpc = "done"
    /\ fed = Len(Events)
    /\ out = NoOut

\* Later load runs of the same log, none of which fails, and queries beside
\* them: the store committed before each run and the one committed at its
\* completion are both LoadedStore.
SpecLoaded == InitLoaded /\ [][Load \/ Query]_vars

\* C15: a query that runs at any point of a later load run completes without
\* error, and what it reports is computed from the store as committed before
\* the run or at its completion, never from a state in between.
C15_QueriesReadCommitted ==
    [][/\ (QueryRuns("exist-between") /\ BoundsParse(out'.argv)) =>
            /\ out'.exit = 0
            /\ out'.rows \in exist_between(LoadedStore, iso8601_to_ts(out'.argv[2]),
                                           iso8601_to_ts(out'.argv[3]))
       /\ QueryRuns("finite-resources") =>
            /\ out'.exit = 0
            /\ out'.rows = finite_resources(LoadedStore)
       /\ (QueryRuns("reads-writes") /\ BoundsParse(out'.argv)
             /\ iso8601_to_ts(out'.argv[3]) - iso8601_to_ts(out'.argv[2]) >= 300) =>
            /\ out'.exit = 0
            /\ out'.counts =
                 reads_writes(LoadedStore, iso8601_to_ts(out'.argv[2]),
                              iso8601_to_ts(out'.argv[3]),
                              IF Len(out'.argv) < 4 THEN "" ELSE out'.argv[4])]_vars

-----------------------------------------------------------------------------
(* C16: the lifecycle of a reported finite resource *)

-----------------------------------------------------------------------------
(* C17: no pre-creation and no orphan rows *)

\* C17: an identifier has a Resource row if and only if an AccessRecord of it
\* is in the ledger, in the rows the load run reads and in the committed
\* store alike; at every event boundary of a run these are the identifiers of
\* the events applied so far.
C17_NoOrphans ==
    /\ ArnsOf(txn.resources) = ArnsOf(txn.accesses)
    /\ ArnsOf(db.resources) = ArnsOf(db.accesses)
    /\ loadpc = "loop" =>
        ArnsOf(txn.resources) = {Events[i].arn : i \in 1..fed}

\* At an event boundary with two Resource rows, after an event on an
\* identifier that already had its row.
C17_Witness ==
    /\ loadpc = "loop"
    /\ Cardinality(ArnsOf(txn.resources)) = 2
    /\ fed = 3

-----------------------------------------------------------------------------
(* C18: the UNKNOWN sentinel *)

\* C18: -1 is the time of no event, so for every Resource row created is -1
\* exactly when no write that is not a deletion has been applied for its
\* identifier, deleted is -1 exactly when no deletion has been applied, and
\* earliest and latest are never -1.
C18_SentinelDistinct ==
    /\ \A i \in 1..Len(Events) : Events[i].ts # UNKNOWN
    /\ \A row \in RowsOf(Resources) :
        /\ row.created = UNKNOWN <=> CreateTimesOf(row.arn) = {}
        /\ row.deleted = UNKNOWN <=> DeleteTimesOf(row.arn) = {}
        /\ row.earliest # UNKNOWN
        /\ row.latest # UNKNOWN

-----------------------------------------------------------------------------
(* C19: lifecycle times lie within the observed activity *)

\* C19: for every Resource row, a known created lies between earliest and
\* latest, and so does a known deleted.
C19_WithinActivity ==
    \A row \in RowsOf(Resources) \cup RowsOf(db.resources) :
        /\ row.created # UNKNOWN =>
            row.earliest <= row.created /\ row.created <= row.latest
        /\ row.deleted # UNKNOWN =>
            row.earliest <= row.deleted /\ row.deleted <= row.latest

\* A row updated twice, with created and deleted known and created strictly
\* inside its activity.
C19_Witness ==
    /\ fed = 3
    /\ \E row \in RowsOf(Resources) :
        /\ row.created # UNKNOWN /\ row.deleted # UNKNOWN
        /\ row.earliest < row.created /\ row.created < row.latest

-----------------------------------------------------------------------------
(* C20: the principal of a row, and the rows an upsert leaves alone *)

\* The first of the applied events of arn.
FirstOf(arn) ==
    Applied[CHOOSE i \in 1..fed :
                /\ Applied[i].arn = arn
                /\ \A j \in 1..(i - 1) : Applied[j].arn # arn]

\* C20: the principal of a Resource row is the principal of the first event
\* applied for its identifier, of whatever kind; no later upsert changes it,
\* and the upsert of an event leaves every row of another identifier as it
\* was.
C20_PrincipalAndFrame ==
    /\ [](\A row \in RowsOf(Resources) : row.iam = FirstOf(row.arn).iam)
    /\ [][(loadpc = "loop" /\ fed' = fed + 1) =>
            \A i \in 1..Len(txn.resources) :
                /\ txn'.resources[i].arn = txn.resources[i].arn
                /\ txn'.resources[i].iam = txn.resources[i].iam
                /\ txn.resources[i].arn # Events[fed'].arn =>
                    txn'.resources[i] = txn.resources[i]]_vars

\* Two rows, the first of them made by a read-only event of one principal
\* and updated by an event of another principal.
C20_Witness ==
    /\ loadpc = "loop" /\ fed = 3
    /\ Len(txn.resources) = 2
    /\ \E i \in 1..fed :
        /\ Events[i].arn = txn.resources[1].arn
        /\ Events[i].iam # txn.resources[1].iam
    /\ Events[1].ro

====
